---- MODULE Spec2Model ----
(***************************************************************************)
(* Model of sportradar_api_etl.py: the HTTP fetcher get(), the six record  *)
(* normalizers, the upsert writer upsert_table() and the orchestrator      *)
(* main().                                                                 *)
(*                                                                         *)
(* JSON scalars are tagged sequences of strings: <<"null">>, <<"i", "7">>, *)
(* <<"s", "J", "a", "n", "e">> (a string is its tag followed by its        *)
(* characters), <<"o">> (the value is a mapping).  A JSON object is a      *)
(* function from key paths to scalars: <<"id">>, <<"country">>,            *)
(* <<"country", "name">>.                                                  *)
(***************************************************************************)
EXTENDS Integers, Sequences, FiniteSets, TLC

----------------------------------------------------------------------------
(* JSON values and Python's dict.get / or / truthiness *)

None == <<"null">>
EmptyStr == <<"s">>
Zero == <<"i", "0">>
Mapping == <<"o">>
Raise == <<"raise">>
RaisedRow == [error |-> "raise"]

Str(chars) == <<"s">> \o chars
Num(digits) == <<"i", digits>>

\* the value of o at key k is a nested mapping
IsMapping(o, k) == <<k>> \in DOMAIN o /\ o[<<k>>] = Mapping

\* dict.get(key): the value, or None when the key is absent
Get(o, k) == IF <<k>> \in DOMAIN o THEN o[<<k>>] ELSE None

\* the nested mapping stored under key k (paths below k, with k stripped)
Sub(o, k) ==
    LET below == {p \in DOMAIN o : Len(p) > 1 /\ Head(p) = k}
    IN  [q \in {Tail(p) : p \in below} |-> o[<<k>> \o q]]

\* bool(v) for a scalar: None, '' and 0 are falsy
TruthyNone(v) == v \notin {EmptyStr, Zero, Mapping}
TruthyScalar(v) == v \notin {None, EmptyStr, Zero, Mapping}

\* a or b, for scalars
OrLast(a, b) == IF TruthyScalar(b) THEN b ELSE a
Or(a, b) == IF TruthyScalar(a) THEN a ELSE b

\* (o.get(k) or {}).get(f): Raise when o[k] is a truthy non-mapping
\* (AttributeError: 'str' object has no attribute 'get')
NestedOrEmpty(o, k, f) ==
    IF IsMapping(o, k) THEN Get(Sub(o, k), f)
    ELSE IF TruthyScalar(Get(o, k)) THEN Raise
    ELSE None

\* o.get(k, {}).get(f): the default applies only when k is absent, so a
\* present null (or any non-mapping) raises AttributeError
NestedDefault(o, k, f) ==
    IF <<k>> \notin DOMAIN o THEN None
    ELSE IF IsMapping(o, k) THEN Get(Sub(o, k), f)
    ELSE Raise

\* a or b where a may have raised; b is only evaluated when a is falsy
OrR(a, b) == IF a = Raise THEN Raise ELSE Or(a, b)

Min(a, b) == IF a < b THEN a ELSE b

AbbrevLen == 10

\* s[:n] of a string value; slicing a number raises TypeError
Prefix(v, n) ==
    IF Head(v) = "s"
    THEN Str(SubSeq(Tail(v), 1, Min(n, Len(v) - 1)))
    ELSE Raise

\* a row is a function from column name to scalar; the dict display raises as
\* soon as one of its value expressions raises
RowOf(r) == IF \E c \in DOMAIN r : r[c] = Raise THEN RaisedRow ELSE r

----------------------------------------------------------------------------
(* Record normalizers *)

normalize_competition(j) ==
    RowOf([competition_id   |-> Or(Get(j, "id"), Get(j, "competition_id")),
           competition_name |-> Or(Or(Get(j, "name"), Get(j, "competition_name")), EmptyStr),
           parent_id        |-> Get(j, "parent_id"),
           type             |-> Or(Or(Get(j, "type"), Get(j, "competition_type")), EmptyStr),
           gender           |-> Or(Or(Get(j, "gender"), Get(j, "gender_type")), EmptyStr),
           category_id      |-> IF TruthyScalar(Get(j, "category_id"))
                                THEN Get(j, "category_id")
                                ELSE NestedDefault(j, "category", "id")])

normalize_category(j) ==
    RowOf([category_id   |-> Get(j, "id"),
           category_name |-> Or(Or(Get(j, "name"), Get(j, "category_name")), EmptyStr)])

normalize_complex(j) ==
    RowOf([complex_id   |-> Get(j, "id"),
           complex_name |-> Or(Or(Get(j, "name"), Get(j, "complex_name")), EmptyStr)])

normalize_venue(j) ==
    RowOf([venue_id     |-> Get(j, "id"),
           venue_name   |-> Or(Or(Get(j, "name"), Get(j, "venue_name")), EmptyStr),
           city_name    |-> OrR(OrR(NestedOrEmpty(j, "city", "name"), Get(j, "city_name")), EmptyStr),
           country_name |-> OrR(OrR(NestedOrEmpty(j, "country", "name"), Get(j, "country_name")), EmptyStr),
           country_code |-> OrR(OrR(NestedOrEmpty(j, "country", "code"), Get(j, "country_code")), Str(<<"U", "N", "K">>)),
           timezone     |-> Or(Or(Get(j, "timezone"), Get(j, "tz")), EmptyStr),
           complex_id   |-> IF TruthyScalar(Get(j, "complex_id"))
                            THEN Get(j, "complex_id")
                            ELSE NestedOrEmpty(j, "complex", "id")])

normalize_competitor(j) ==
    RowOf([competitor_id |-> Get(j, "id"),
           name          |-> Or(Or(Get(j, "name"), Get(j, "full_name")), EmptyStr),
           country       |-> OrR(OrR(NestedOrEmpty(j, "country", "name"), Get(j, "country_name")), EmptyStr),
           country_code  |-> OrR(OrR(NestedOrEmpty(j, "country", "code"), Get(j, "country_code")), Str(<<"U", "N", "K">>)),
           abbreviation  |-> Or(Or(Get(j, "abbreviation"), Get(j, "abbr")),
                                Prefix(Or(Get(j, "name"), EmptyStr), AbbrevLen))])

normalize_ranking(j) ==
    RowOf([rank_pos            |-> Get(j, "rank"),
           movement            |-> Or(Get(j, "movement"), Zero),
           points              |-> Or(Get(j, "points"), Zero),
           competitions_played |-> Or(Or(Get(j, "competitions_played"), Get(j, "competitions")), Zero),
           competitor_id       |-> OrR(NestedOrEmpty(j, "competitor", "id"), Get(j, "competitor_id")),
           ranking_date        |-> Or(Get(j, "ranking_date"), None)])

\* the normalizer by the name of the entity it maps
Normalizer(kind, j) ==
    CASE kind = "competition" -> normalize_competition(j)
      [] kind = "category" -> normalize_category(j)
      [] kind = "complex" -> normalize_complex(j)
      [] kind = "venue" -> normalize_venue(j)
      [] kind = "competitor" -> normalize_competitor(j)
      [] kind = "ranking" -> normalize_ranking(j)

----------------------------------------------------------------------------
(* Configuration (module constants of the script) and its validation *)

PlaceholderKey ==
    <<"Y", "O", "U", "R", "_", "A", "P", "I", "_", "K", "E", "Y", "_", "H", "E", "R", "E">>
RealKey == <<"a", "b", "c", "1", "2", "3">>

DbUser == <<"d", "b", "_", "u", "s", "e", "r">>
DbPassword == <<"d", "b", "_", "p", "a", "s", "s", "w", "o", "r", "d">>
Scheme == <<"m", "y", "s", "q", "l", "+", "p", "y", "m", "y", "s", "q", "l", ":", "/", "/">>
Host ==
    <<"@", "l", "o", "c", "a", "l", "h", "o", "s", "t", ":", "3", "3", "0", "6", "/", "s", "p", "o", "r", "t", "r", "a", "d", "a", "r", "_", "d", "b">>
PlaceholderDb == Scheme \o DbUser \o <<":">> \o DbPassword \o Host
HalfUserDb == Scheme \o DbUser \o <<":">> \o <<"p", "w">> \o Host
HalfPasswordDb == Scheme \o <<"e", "t", "l">> \o <<":">> \o DbPassword \o Host
RealDb == Scheme \o <<"e", "t", "l">> \o <<":">> \o <<"p", "w">> \o Host

ApiKeys == {PlaceholderKey, RealKey}
DbStrings == {PlaceholderDb, HalfUserDb, HalfPasswordDb, RealDb}

\* str.startswith and the `in` operator on strings
StartsWith(s, p) == Len(s) >= Len(p) /\ SubSeq(s, 1, Len(p)) = p
Contains(s, p) == \E i \in 1..(Len(s) - Len(p) + 1) : SubSeq(s, i, i + Len(p) - 1) = p

ConfigRejectedKeyOnly(key, dbs) == StartsWith(key, <<"Y", "O", "U", "R", "_">>)
ConfigRejected(key, dbs) ==
    \/ StartsWith(key, <<"Y", "O", "U", "R", "_">>)
    \/ Contains(dbs, DbUser)
    \/ Contains(dbs, DbPassword)

----------------------------------------------------------------------------
(* Endpoint groups, their tables and the primary keys main() names *)

Groups == {1, 2, 3}
Tables == {"Categories", "Competitions", "Complexes", "Venues",
           "Competitors", "Competitor_Rankings"}

ENDPOINTS(g) == CASE g = 1 -> "competitions"
                  [] g = 2 -> "complexes"
                  [] g = 3 -> "doubles_rankings"

ParentTable(g) == CASE g = 1 -> "Categories"
                    [] g = 2 -> "Complexes"
                    [] g = 3 -> "Competitors"

ChildTable(g) == CASE g = 1 -> "Competitions"
                   [] g = 2 -> "Venues"
                   [] g = 3 -> "Competitor_Rankings"

PkOf(t) == CASE t = "Categories" -> "category_id"
             [] t = "Competitions" -> "competition_id"
             [] t = "Complexes" -> "complex_id"
             [] t = "Venues" -> "venue_id"
             [] t = "Competitors" -> "competitor_id"
             [] t = "Competitor_Rankings" -> "rank_id"

GroupOf(t) == CHOOSE g \in Groups : t \in {ParentTable(g), ChildTable(g)}

----------------------------------------------------------------------------
(* Response documents.  A document maps a top-level key to a list value   *)
(* [kind, items]; a list item is [obj, kids], kids being the list nested  *)
(* under the item (competitions of a category, venues of a complex).      *)

List(items) == [kind |-> "list", items |-> items]
NullList == [kind |-> "null", items |-> <<>>]
AbsentList == [kind |-> "absent", items |-> <<>>]
Leaf(o) == [obj |-> o, kids |-> AbsentList]
Node(o, k) == [obj |-> o, kids |-> k]
NoDoc == [nodoc |-> TRUE]

K(k, v) == <<k>> :> v
K2(k, f, v) == <<k, f>> :> v

IdA == Str(<<"a">>)
IdB == Str(<<"b">>)
NameOld == Str(<<"O", "l", "d">>)
NameX == Str(<<"X">>)
NameY == Str(<<"Y">>)
NameLong == Str(<<"A", "l", "e", "x", "a", "n", "d", "e", "r", " ", "Z", "v">>)

\* competitions.json: the competition "a" is listed under its category and
\* again at top level
DocCompetitions ==
    ("categories" :> List(<<
        Node(K("id", IdA) @@ K("name", NameX),
             List(<<Leaf(K("id", IdA) @@ K("name", NameX)
                         @@ K("category", Mapping) @@ K2("category", "id", IdA))>>))>>))
    @@ ("competitions" :> List(<<
        Leaf(K("id", IdA) @@ K("competition_name", NameY) @@ K("category_id", IdA))>>))

\* the alternate top-level keys; the competition's category is null
DocCompetitionsNullCategory ==
    ("category" :> List(<<Leaf(K("id", IdB) @@ K("category_name", NameY))>>))
    @@ ("items" :> List(<<Leaf(K("id", IdB) @@ K("category", None))>>))

DocComplexes ==
    ("complexes" :> List(<<
        Node(K("id", IdA) @@ K("name", NameX),
             List(<<Leaf(K("id", IdA) @@ K("name", NameX)
                         @@ K("city", Mapping) @@ K2("city", "name", NameY)
                         @@ K("country", None)
                         @@ K("complex_id", IdA)),
                    Leaf(K("id", IdB) @@ K("venue_name", NameY)
                         @@ K("complex", Mapping) @@ K2("complex", "id", IdA))>>))>>))

\* a complex without venues and one whose venues are null
DocComplexesNullVenues ==
    ("items" :> List(<<Leaf(K("id", IdB)),
                       Node(K("id", IdA), NullList)>>))

DocRankings ==
    ("rankings" :> List(<<
        Leaf(K("rank", Num("1")) @@ K("points", Num("9"))
             @@ K("competitor", Mapping) @@ K2("competitor", "id", IdA)
             @@ K2("competitor", "name", NameLong)
             @@ K2("competitor", "country", Mapping)
             @@ (<<"competitor", "country", "code">> :> Str(<<"D", "E">>)))>>))

\* no rankings at all
DocEmpty == ("items" :> List(<<>>))

Docs(g) == CASE g = 1 -> {DocCompetitions, DocCompetitionsNullCategory}
             [] g = 2 -> {DocComplexes, DocComplexesNullVenues}
             [] g = 3 -> {DocRankings, DocEmpty}

----------------------------------------------------------------------------
(* Extraction and flattening in main() *)

TopGet(d, k) == IF k \in DOMAIN d THEN d[k] ELSE NullList
ListTruthy(v) == v.kind = "list" /\ Len(v.items) > 0
EmptyList == List(<<>>)

\* a or b or [] over top-level list values
FirstList(d, k1, k2) ==
    IF ListTruthy(TopGet(d, k1)) THEN TopGet(d, k1)
    ELSE IF ListTruthy(TopGet(d, k2)) THEN TopGet(d, k2)
    ELSE EmptyList

\* data.get('categories') or data.get('category', []): a present null
\* 'category' is returned as it is and cannot be iterated
CategoriesOf(d) ==
    IF ListTruthy(TopGet(d, "categories")) THEN TopGet(d, "categories")
    ELSE IF "category" \in DOMAIN d THEN d["category"]
    ELSE EmptyList

RECURSIVE Concat(_)
Concat(seqs) == IF seqs = <<>> THEN <<>> ELSE Head(seqs) \o Concat(Tail(seqs))

MapSeq(Op(_), xs) == [i \in 1..Len(xs) |-> Op(xs[i])]

\* cat.get('competitions') or []
KidsOrEmpty(it) == IF it.kids.kind = "list" THEN it.kids.items ELSE <<>>
\* comp.get('venues', []): a present null is not iterable
KidsDefault(it) == IF it.kids.kind = "absent" THEN EmptyList ELSE it.kids

\* the group's try block was left by an exception before any upsert
Failed == [ok |-> FALSE, parent |-> <<>>, child |-> <<>>]

AnyRaised(rows) == \E i \in 1..Len(rows) : rows[i] = RaisedRow
Batches(parent, child) ==
    IF AnyRaised(parent) \/ AnyRaised(child)
    THEN Failed
    ELSE [ok |-> TRUE, parent |-> parent, child |-> child]

ObjOf(it) == it.obj

CompetitionBatches(d) ==
    LET categories == CategoriesOf(d)
        competitions == FirstList(d, "competitions", "items")
        nested(cat) == MapSeq(ObjOf, KidsOrEmpty(cat))
    IN  IF categories.kind # "list" THEN Failed
        ELSE Batches(MapSeq(normalize_category, MapSeq(ObjOf, categories.items)),
                     MapSeq(normalize_competition,
                            Concat(MapSeq(nested, categories.items))
                            \o MapSeq(ObjOf, competitions.items)))

ComplexBatches(d) ==
    LET complexes == FirstList(d, "complexes", "items")
        venues(comp) == MapSeq(ObjOf, KidsDefault(comp).items)
    IN  IF \E i \in 1..Len(complexes.items) : KidsDefault(complexes.items[i]).kind # "list"
        THEN Failed
        ELSE Batches(MapSeq(normalize_complex, MapSeq(ObjOf, complexes.items)),
                     MapSeq(normalize_venue, Concat(MapSeq(venues, complexes.items))))

\* competitor = (r.get('competitor') or {}); if competitor: normalize it
CompetitorRows(r) ==
    IF IsMapping(r, "competitor")
    THEN IF DOMAIN Sub(r, "competitor") # {}
         THEN <<normalize_competitor(Sub(r, "competitor"))>>
         ELSE <<>>
    ELSE IF TruthyScalar(Get(r, "competitor")) THEN <<RaisedRow>>
    ELSE <<>>

RankingBatches(d) ==
    LET rankings == MapSeq(ObjOf, FirstList(d, "rankings", "items").items)
    IN  Batches(Concat(MapSeq(CompetitorRows, rankings)),
                MapSeq(normalize_ranking, rankings))

GroupBatches(g, d) == CASE g = 1 -> CompetitionBatches(d)
                        [] g = 2 -> ComplexBatches(d)
                        [] g = 3 -> RankingBatches(d)

----------------------------------------------------------------------------
(* State *)

VARIABLES
    apiKey, dbString,       \* SPORTRADAR_API_KEY, DB_CONNECTION_STRING
    pc, grp,                \* main(): position and current endpoint group
    exitStatus,             \* sys.exit status, -1 while running
    engine,                 \* create_engine has been called
    started,                \* endpoint groups started so far, in order
    data, batches,          \* main(): fetched document, normalized row batches
    groupError,             \* what each group's except clause caught
    gpc, gurl, max_retries, \* get(): position, url, retry limit
    attempt,                \* get(): loop index (0-based)
    requests,               \* get(): GET requests issued by this call
    slept, lastSleep,       \* get(): seconds slept in total / in the last attempt
    lastStatus, lastBody,   \* get(): status and body of the last response
    seen,                   \* get(): outcomes of the attempts made so far
    gresult, gerror,        \* get(): returned document / raised error
    upc, utable, urows, upk,\* upsert_table(): position and arguments
    ui,                     \* upsert_table(): index of the next row to execute
    uret,                   \* upsert_table(): the value the call returned
    txn,                    \* rows of the target table as seen in the open transaction
    tableBefore,            \* rows of the target table when the call started
    held,                   \* connections checked out of the pool
    ups,                    \* how the last upsert of each table ended
    db,                     \* committed rows of each table
    calls, prev,            \* driver of the upsert writer: calls made, last committed call
    nkind, nitem, nrow      \* a normalizer call: which one, its argument, its result

cfgVars == <<apiKey, dbString>>
mainVars == <<pc, grp, exitStatus, engine, started, data, batches, groupError>>
getVars == <<gpc, gurl, max_retries, attempt, requests, slept, lastSleep, lastStatus,
             lastBody, seen, gresult, gerror>>
upsertVars == <<upc, utable, urows, upk, ui, uret, txn, tableBefore, held, ups, db>>
normVars == <<nkind, nitem, nrow>>
driverVars == <<calls, prev, normVars>>
vars == <<cfgVars, mainVars, getVars, upsertVars, driverVars>>

----------------------------------------------------------------------------
(* get(engine, url, params, max_retries) *)

DefaultMaxRetries == 5
RateLimitStep == 5
NetworkStep == 2

NoError == [type |-> "none", url |-> ""]

Statuses == {200, 204, 404, 429, 503}
Urls == {ENDPOINTS(g) : g \in Groups}
DocsAt(url) == Docs(CHOOSE g \in Groups : ENDPOINTS(g) = url)

\* range(max_retries) is exhausted
RetryLimitReachedOff(a, m) == a > m
RetryLimitReached(a, m) == a >= m

\* resp.status_code in (429, 503)
IsBackoffStatus(st) == st \in {429, 503}

\* Response.raise_for_status raises HTTPError for 4xx and 5xx only
RaisesForStatus(st) == st >= 400 /\ st < 600

GetIdle ==
    /\ gpc = "idle" /\ gurl = "" /\ max_retries = 0 /\ attempt = 0 /\ requests = 0
    /\ slept = 0 /\ lastSleep = 0 /\ lastStatus = "none" /\ lastBody = NoDoc
    /\ seen = {} /\ gresult = NoDoc /\ gerror = NoError

GetReset ==
    /\ gpc' = "idle" /\ gurl' = "" /\ max_retries' = 0 /\ attempt' = 0 /\ requests' = 0
    /\ slept' = 0 /\ lastSleep' = 0 /\ lastStatus' = "none" /\ lastBody' = NoDoc
    /\ seen' = {} /\ gresult' = NoDoc /\ gerror' = NoError

GetCall(url, m) ==
    /\ gpc' = "loop" /\ gurl' = url /\ max_retries' = m /\ attempt' = 0 /\ requests' = 0
    /\ slept' = 0 /\ lastSleep' = 0 /\ lastStatus' = "none" /\ lastBody' = NoDoc
    /\ seen' = {} /\ gresult' = NoDoc /\ gerror' = NoError

\* one more attempt runs: requests.get is called and answers st with body
GetRequest(st, body) ==
    /\ gpc = "loop"
    /\ ~RetryLimitReached(attempt, max_retries)
    /\ requests' = requests + 1
    /\ lastStatus' = st
    /\ lastBody' = body
    /\ seen' = seen \cup {st}
    /\ UNCHANGED <<gurl, max_retries>>

GetSleep(secs) ==
    /\ slept' = slept + secs
    /\ lastSleep' = secs

\* the loop body ended without return: next iteration
GetContinue ==
    /\ attempt' = attempt + 1
    /\ UNCHANGED <<gpc, gresult, gerror>>

\* status 200: return resp.json()
Get200 ==
    /\ gpc = "loop"
    /\ \E d \in DocsAt(gurl) : GetRequest("200", d)
    /\ gresult' = lastBody'
    /\ gpc' = "returned"
    /\ lastSleep' = 0
    /\ UNCHANGED <<attempt, slept, gerror>>
    /\ UNCHANGED <<cfgVars, mainVars, upsertVars, driverVars>>

GetBackoffZeroBased ==
    /\ \E st \in {x \in Statuses : IsBackoffStatus(x)} : GetRequest(ToString(st), NoDoc)
    /\ GetSleep(attempt * RateLimitStep)
    /\ GetContinue
    /\ UNCHANGED <<cfgVars, mainVars, upsertVars, driverVars>>

\* status 429 or 503: sleep (attempt + 1) * 5 and go round the loop
GetBackoff ==
    /\ \E st \in {x \in Statuses : IsBackoffStatus(x)} : GetRequest(ToString(st), NoDoc)
    /\ GetSleep((attempt + 1) * RateLimitStep)
    /\ GetContinue
    /\ UNCHANGED <<cfgVars, mainVars, upsertVars, driverVars>>

\* any other status: raise_for_status(); the HTTPError it raises is a
\* RequestException, caught by the except clause of the same iteration, which
\* sleeps (attempt + 1) * 2 and goes round the loop.  A status it does not
\* raise for falls through to the next iteration without sleeping.
GetOtherStatus ==
    /\ \E st \in {x \in Statuses : x # 200 /\ ~IsBackoffStatus(x)} :
          /\ GetRequest(ToString(st), NoDoc)
          /\ IF RaisesForStatus(st)
             THEN GetSleep((attempt + 1) * NetworkStep)
             ELSE GetSleep(0)
    /\ GetContinue
    /\ UNCHANGED <<cfgVars, mainVars, upsertVars, driverVars>>

\* requests.get raised a RequestException (timeout, connection error)
GetNetworkError ==
    /\ GetRequest("exception", NoDoc)
    /\ GetSleep((attempt + 1) * NetworkStep)
    /\ GetContinue
    /\ UNCHANGED <<cfgVars, mainVars, upsertVars, driverVars>>

\* the loop ran out: raise RuntimeError('Max retries exceeded for URL: ...')
GetExhausted ==
    /\ gpc = "loop"
    /\ RetryLimitReached(attempt, max_retries)
    /\ gpc' = "raised"
    /\ gerror' = [type |-> "RuntimeError", url |-> gurl]
    /\ UNCHANGED <<gurl, max_retries, attempt, requests, slept, lastSleep, lastStatus,
                   lastBody, seen, gresult>>
    /\ UNCHANGED <<cfgVars, mainVars, upsertVars, driverVars>>

GetStep == Get200 \/ GetBackoff \/ GetOtherStatus \/ GetNetworkError \/ GetExhausted

----------------------------------------------------------------------------
(* The store: REPLACE INTO inside a transaction *)

\* the row carries a value for the table's primary key
HasKey(row, pk) == pk \in DOMAIN row /\ row[pk] # None

\* a key the store generates for a row that supplies none
GeneratedKey(tbl, pk) ==
    <<"g", ToString(Cardinality({r \in tbl : Head(r[pk]) = "g"}) + 1)>>

WithKey(row, pk, k) == [c \in DOMAIN row \cup {pk} |-> IF c = pk THEN k ELSE row[c]]

\* REPLACE INTO t (cols) VALUES (row): delete the row with the same primary
\* key, then insert; a row without a key value conflicts with nothing
ReplaceIntoIgnore(tbl, row, pk) ==
    IF HasKey(row, pk)
    THEN IF \E r \in tbl : r[pk] = row[pk] THEN tbl ELSE tbl \cup {row}
    ELSE tbl \cup {WithKey(row, pk, GeneratedKey(tbl, pk))}
ReplaceInto(tbl, row, pk) ==
    IF HasKey(row, pk)
    THEN {r \in tbl : r[pk] # row[pk]} \cup {row}
    ELSE tbl \cup {WithKey(row, pk, GeneratedKey(tbl, pk))}

\* the statement binds the columns of rows[0]; a row lacking one of them
\* cannot be bound
Bindable(rows, i) == DOMAIN rows[1] \subseteq DOMAIN rows[i]
Bound(rows, i) == [c \in DOMAIN rows[1] |-> rows[i][c]]

----------------------------------------------------------------------------
(* upsert_table(engine, table_name, rows, pk) *)

\* no value returned (yet)
Unset == <<"unset">>

UpsertIdle ==
    /\ upc = "idle" /\ utable = "" /\ urows = <<>> /\ upk = "" /\ ui = 0
    /\ txn = {} /\ tableBefore = {} /\ uret = Unset

UpsertReset ==
    /\ upc' = "idle" /\ utable' = "" /\ urows' = <<>> /\ upk' = "" /\ ui' = 0
    /\ txn' = {} /\ tableBefore' = {} /\ uret' = Unset

UpsertCall(t, rows, pk) ==
    /\ upc' = "entry" /\ utable' = t /\ urows' = rows /\ upk' = pk /\ ui' = 0
    /\ txn' = {} /\ tableBefore' = db[t] /\ uret' = Unset
    /\ ups' = [ups EXCEPT ![t] = "running"]
    /\ UNCHANGED <<held, db>>

Ended(how) == ups' = [ups EXCEPT ![utable] = how]

\* if not rows: log and return
UpsertEmpty ==
    /\ upc = "entry" /\ urows = <<>>
    /\ upc' = "returned"
    /\ uret' = None
    /\ Ended("empty")
    /\ UNCHANGED <<utable, urows, upk, ui, txn, tableBefore, held, db>>
    /\ UNCHANGED <<cfgVars, mainVars, getVars, driverVars>>

\* conn = engine.connect(), before the try statement
UpsertConnect ==
    /\ upc = "entry" /\ urows # <<>>
    /\ \/ /\ upc' = "connected"
          /\ held' = held + 1
          /\ UNCHANGED ups
       \/ /\ upc' = "raised"
          /\ Ended("raised")
          /\ UNCHANGED held
    /\ UNCHANGED <<utable, urows, upk, ui, txn, tableBefore, db>>
    /\ UNCHANGED uret
    /\ UNCHANGED <<cfgVars, mainVars, getVars, driverVars>>

\* trans = conn.begin(), before the try statement: when it raises, neither the
\* except nor the finally clause runs
UpsertBegin ==
    /\ upc = "connected"
    /\ \/ /\ upc' = "executing"
          /\ ui' = 1
          /\ txn' = db[utable]
          /\ UNCHANGED ups
       \/ /\ upc' = "raised"
          /\ Ended("raised")
          /\ UNCHANGED <<ui, txn>>
    /\ UNCHANGED <<utable, urows, upk, tableBefore, held, db>>
    /\ UNCHANGED uret
    /\ UNCHANGED <<cfgVars, mainVars, getVars, driverVars>>

\* the committed rows of the table after a statement ran inside the open
\* transaction (conn.begin() suspends autocommit)
AfterExecuteAutocommit(committed, working) == working
AfterExecute(committed, working) == committed

\* for row in rows: conn.execute(stmt, **row)
UpsertExecute ==
    /\ upc = "executing" /\ ui <= Len(urows)
    /\ \/ /\ Bindable(urows, ui)
          /\ txn' = ReplaceInto(txn, Bound(urows, ui), PkOf(utable))
          /\ db' = [db EXCEPT ![utable] = AfterExecute(db[utable], txn')]
          /\ ui' = ui + 1
          /\ UNCHANGED upc
       \/ /\ upc' = "rollback"
          /\ UNCHANGED <<ui, txn, db>>
    /\ UNCHANGED <<utable, urows, upk, tableBefore, held, ups>>
    /\ UNCHANGED uret
    /\ UNCHANGED <<cfgVars, mainVars, getVars, driverVars>>

\* trans.commit()
UpsertCommit ==
    /\ upc = "executing" /\ ui > Len(urows)
    /\ \/ /\ db' = [db EXCEPT ![utable] = txn]
          /\ upc' = "close"
          /\ Ended("committed")
       \/ /\ upc' = "rollback"
          /\ UNCHANGED <<db, ups>>
    /\ UNCHANGED <<utable, urows, upk, ui, txn, tableBefore, held>>
    /\ UNCHANGED uret
    /\ UNCHANGED <<cfgVars, mainVars, getVars, driverVars>>

\* except SQLAlchemyError: trans.rollback(); log
UpsertRollback ==
    /\ upc = "rollback"
    /\ txn' = {}
    /\ upc' = "close"
    /\ Ended("rolledback")
    /\ UNCHANGED <<utable, urows, upk, ui, tableBefore, held, db>>
    /\ UNCHANGED uret
    /\ UNCHANGED <<cfgVars, mainVars, getVars, driverVars>>

\* finally: conn.close(); the function body ends without a return statement
UpsertClose ==
    /\ upc = "close"
    /\ held' = held - 1
    /\ upc' = "returned"
    /\ uret' = None
    /\ UNCHANGED <<utable, urows, upk, ui, txn, tableBefore, ups, db>>
    /\ UNCHANGED <<cfgVars, mainVars, getVars, driverVars>>

UpsertStep ==
    \/ UpsertEmpty \/ UpsertConnect \/ UpsertBegin \/ UpsertExecute
    \/ UpsertCommit \/ UpsertRollback \/ UpsertClose

----------------------------------------------------------------------------
(* main() *)

OldRows(t) ==
    LET old == K("id", IdA) @@ K("name", NameOld)
    IN  CASE t = "Categories" -> {normalize_category(old)}
          [] t = "Competitions" -> {normalize_competition(old)}
          [] t = "Complexes" -> {normalize_complex(old)}
          [] t = "Venues" -> {normalize_venue(old)}
          [] t = "Competitors" -> {normalize_competitor(old)}
          [] t = "Competitor_Rankings" ->
                {WithKey(normalize_ranking(K("rank", Num("1"))), "rank_id", <<"g", "1">>)}

EmptyDb == [t \in Tables |-> {}]
OldDb == [t \in Tables |-> OldRows(t)]
InitDbs == {EmptyDb, OldDb}

\* where main() goes on after group g, whether it ended normally or in its
\* except clause
AfterGroupAbort(g) == "completed"
AfterGroup(g) == IF g < Cardinality(Groups) THEN "group" ELSE "completed"

LeaveGroup(err) ==
    /\ pc' = AfterGroup(grp)
    /\ grp' = IF AfterGroup(grp) = "group" THEN grp + 1 ELSE grp
    /\ groupError' = [groupError EXCEPT ![grp] = err]
    /\ data' = NoDoc
    /\ batches' = Failed
    /\ UNCHANGED <<exitStatus, engine, started>>

\* the two placeholder checks; sys.exit(1)
Validate ==
    /\ pc = "validate"
    /\ IF ConfigRejected(apiKey, dbString)
       THEN pc' = "exited" /\ exitStatus' = 1
       ELSE pc' = "create_engine" /\ UNCHANGED exitStatus
    /\ UNCHANGED <<grp, engine, started, data, batches, groupError>>
    /\ UNCHANGED <<cfgVars, getVars, upsertVars, driverVars>>

CreateEngine ==
    /\ pc = "create_engine"
    /\ engine' = TRUE
    /\ pc' = "group"
    /\ grp' = 1
    /\ UNCHANGED <<exitStatus, started, data, batches, groupError>>
    /\ UNCHANGED <<cfgVars, getVars, upsertVars, driverVars>>

\* try: url = ENDPOINTS[...]; data = get(engine, url)
StartGroup ==
    /\ pc = "group"
    /\ started' = Append(started, grp)
    /\ GetCall(ENDPOINTS(grp), DefaultMaxRetries)
    /\ pc' = "fetching"
    /\ UNCHANGED <<grp, exitStatus, engine, data, batches, groupError>>
    /\ UNCHANGED <<cfgVars, upsertVars, driverVars>>

FetchReturned ==
    /\ pc = "fetching" /\ gpc = "returned"
    /\ data' = gresult
    /\ GetReset
    /\ pc' = "normalize"
    /\ UNCHANGED <<grp, exitStatus, engine, started, batches, groupError>>
    /\ UNCHANGED <<cfgVars, upsertVars, driverVars>>

FetchRaisedContinue ==
    /\ pc = "fetching" /\ gpc = "raised"
    /\ groupError' = [groupError EXCEPT ![grp] = gerror.type]
    /\ data' = DocEmpty
    /\ batches' = GroupBatches(grp, DocEmpty)
    /\ pc' = "upsert_parent"
    /\ GetReset
    /\ UNCHANGED <<grp, exitStatus, engine, started>>
    /\ UNCHANGED <<cfgVars, upsertVars, driverVars>>

\* get raised: the group's except Exception clause logs it
FetchRaised ==
    /\ pc = "fetching" /\ gpc = "raised"
    /\ LeaveGroup(gerror.type)
    /\ GetReset
    /\ UNCHANGED <<cfgVars, upsertVars, driverVars>>

\* extraction and the normalization loops, up to the first upsert_table call
Normalize ==
    /\ pc = "normalize"
    /\ IF GroupBatches(grp, data).ok
       THEN /\ batches' = GroupBatches(grp, data)
            /\ pc' = "upsert_parent"
            /\ UNCHANGED <<grp, exitStatus, engine, started, data, groupError>>
       ELSE LeaveGroup("normalize")
    /\ UNCHANGED <<cfgVars, getVars, upsertVars, driverVars>>

\* the order of the two upsert_table calls of a group
UpsertOrderSwapped(g) == <<ChildTable(g), ParentTable(g)>>
UpsertOrder(g) == <<ParentTable(g), ChildTable(g)>>

RowsFor(t) == IF t = ParentTable(grp) THEN batches.parent ELSE batches.child

CallFirstUpsert ==
    /\ pc = "upsert_parent"
    /\ UpsertCall(UpsertOrder(grp)[1], RowsFor(UpsertOrder(grp)[1]), PkOf(UpsertOrder(grp)[1]))
    /\ pc' = "in_parent"
    /\ UNCHANGED <<grp, exitStatus, engine, started, data, batches, groupError>>
    /\ UNCHANGED <<cfgVars, getVars, driverVars>>

CallSecondUpsert ==
    /\ pc = "upsert_child"
    /\ UpsertCall(UpsertOrder(grp)[2], RowsFor(UpsertOrder(grp)[2]), PkOf(UpsertOrder(grp)[2]))
    /\ pc' = "in_child"
    /\ UNCHANGED <<grp, exitStatus, engine, started, data, batches, groupError>>
    /\ UNCHANGED <<cfgVars, getVars, driverVars>>

UpsertReturnedStrict ==
    /\ pc \in {"in_parent", "in_child"} /\ upc = "returned"
    /\ UpsertReset
    /\ UNCHANGED <<held, ups, db>>
    /\ IF pc = "in_parent" /\ ups[utable] # "rolledback"
       THEN /\ pc' = "upsert_child"
            /\ UNCHANGED <<grp, exitStatus, engine, started, data, batches, groupError>>
       ELSE LeaveGroup(IF ups[utable] = "rolledback" THEN "storage" ELSE "none")
    /\ UNCHANGED <<cfgVars, getVars, driverVars>>

\* upsert_table returned to main()
UpsertReturned ==
    /\ pc \in {"in_parent", "in_child"} /\ upc = "returned"
    /\ UpsertReset
    /\ UNCHANGED <<held, ups, db>>
    /\ IF pc = "in_parent"
       THEN /\ pc' = "upsert_child"
            /\ UNCHANGED <<grp, exitStatus, engine, started, data, batches, groupError>>
       ELSE LeaveGroup("none")
    /\ UNCHANGED <<cfgVars, getVars, driverVars>>

\* upsert_table raised: the group's except Exception clause logs it
UpsertRaised ==
    /\ pc \in {"in_parent", "in_child"} /\ upc = "raised"
    /\ UpsertReset
    /\ UNCHANGED <<held, ups, db>>
    /\ LeaveGroup("storage")
    /\ UNCHANGED <<cfgVars, getVars, driverVars>>

MainStep ==
    \/ Validate \/ CreateEngine \/ StartGroup \/ FetchReturned \/ FetchRaised
    \/ Normalize \/ CallFirstUpsert \/ CallSecondUpsert \/ UpsertReturned
    \/ UpsertRaised

NormIdle == nkind = "" /\ nitem = <<>> /\ nrow = <<>>

NoPrev == [table |-> "", rows |-> <<>>, after |-> {}]

Init ==
    /\ apiKey \in ApiKeys /\ dbString \in DbStrings
    /\ pc = "validate" /\ grp = 0 /\ exitStatus = -1 /\ engine = FALSE
    /\ started = <<>> /\ data = NoDoc /\ batches = Failed
    /\ groupError = [g \in Groups |-> "none"]
    /\ GetIdle
    /\ UpsertIdle /\ held = 0 /\ ups = [t \in Tables |-> "idle"]
    /\ db \in InitDbs
    /\ calls = 0 /\ prev = NoPrev
    /\ NormIdle

Next == MainStep \/ GetStep \/ UpsertStep

Spec == Init /\ [][Next]_vars

----------------------------------------------------------------------------
(* get() on its own: any url, any retry limit up to MaxRetriesBound *)

MaxRetriesBound == 4

InitFetch ==
    /\ apiKey = RealKey /\ dbString = RealDb
    /\ pc = "fetch_only" /\ grp = 0 /\ exitStatus = -1 /\ engine = FALSE
    /\ started = <<>> /\ data = NoDoc /\ batches = Failed
    /\ groupError = [g \in Groups |-> "none"]
    /\ gpc = "loop" /\ gurl \in Urls /\ max_retries \in 0..MaxRetriesBound
    /\ attempt = 0 /\ requests = 0 /\ slept = 0 /\ lastSleep = 0
    /\ lastStatus = "none" /\ lastBody = NoDoc /\ seen = {}
    /\ gresult = NoDoc /\ gerror = NoError
    /\ UpsertIdle /\ held = 0 /\ ups = [t \in Tables |-> "idle"]
    /\ db = EmptyDb
    /\ calls = 0 /\ prev = NoPrev
    /\ NormIdle

SpecFetch == InitFetch /\ [][GetStep]_vars

----------------------------------------------------------------------------
(* upsert_table() on its own: up to MaxCalls calls in a row, each with a   *)
(* batch main() builds for the table from one of the documents             *)

MaxCalls == 2

BatchesOf(t) ==
    LET built == {GroupBatches(GroupOf(t), d) : d \in Docs(GroupOf(t))}
    IN  {IF t = ParentTable(GroupOf(t)) THEN b.parent ELSE b.child :
            b \in {x \in built : x.ok}}

DriverCall ==
    /\ pc = "upsert_only" /\ upc = "idle" /\ calls < MaxCalls
    /\ \E t \in Tables : \E rows \in BatchesOf(t) : UpsertCall(t, rows, PkOf(t))
    /\ calls' = calls + 1
    /\ UNCHANGED <<prev, normVars>>
    /\ UNCHANGED <<cfgVars, mainVars, getVars>>

DriverReturn ==
    /\ pc = "upsert_only" /\ upc \in {"returned", "raised"}
    /\ prev' = IF ups[utable] = "committed"
               THEN [table |-> utable, rows |-> urows, after |-> db[utable]]
               ELSE NoPrev
    /\ UpsertReset
    /\ UNCHANGED <<held, ups, db, calls, normVars>>
    /\ UNCHANGED <<cfgVars, mainVars, getVars>>

InitUpsert ==
    /\ apiKey = RealKey /\ dbString = RealDb
    /\ pc = "upsert_only" /\ grp = 0 /\ exitStatus = -1 /\ engine = TRUE
    /\ started = <<>> /\ data = NoDoc /\ batches = Failed
    /\ groupError = [g \in Groups |-> "none"]
    /\ GetIdle
    /\ UpsertIdle /\ held = 0 /\ ups = [t \in Tables |-> "idle"]
    /\ db \in InitDbs
    /\ calls = 0 /\ prev = NoPrev
    /\ NormIdle

NextUpsert == DriverCall \/ DriverReturn \/ UpsertStep

SpecUpsert == InitUpsert /\ [][NextUpsert]_vars

----------------------------------------------------------------------------
(* A normalizer on its own: one call with an argument in which at most     *)
(* MaxPresent of the keys the normalizer reads are present, each with      *)
(* null, an empty value or a value of its own; a nested object is null or  *)
(* a mapping holding any of the fields read from it                        *)

MaxPresent == 3

Kinds == {"competition", "category", "complex", "venue", "competitor", "ranking"}

\* the top-level keys each normalizer reads with json_item.get
ScalarKeys(kind) ==
    CASE kind = "competition" ->
            {"id", "competition_id", "name", "competition_name", "parent_id", "type",
             "competition_type", "gender", "gender_type", "category_id"}
      [] kind = "category" -> {"id", "name", "category_name"}
      [] kind = "complex" -> {"id", "name", "complex_name"}
      [] kind = "venue" ->
            {"id", "name", "venue_name", "city_name", "country_name", "country_code",
             "timezone", "tz", "complex_id"}
      [] kind = "competitor" ->
            {"id", "name", "full_name", "country_name", "country_code", "abbreviation",
             "abbr"}
      [] kind = "ranking" ->
            {"rank", "movement", "points", "competitions_played", "competitions",
             "competitor_id", "ranking_date"}

\* the keys under which each normalizer looks for a nested object
NestedKeys(kind) ==
    CASE kind = "competition" -> {"category"}
      [] kind = "venue" -> {"city", "country", "complex"}
      [] kind = "competitor" -> {"country"}
      [] kind = "ranking" -> {"competitor"}
      [] OTHER -> {}

\* the fields read from a nested object
SubKeys(k) == IF k = "country" THEN {"name", "code"}
              ELSE IF k = "city" THEN {"name"}
              ELSE {"id"}

NumericKeys == {"rank", "movement", "points", "competitions_played", "competitions"}

NameJane == Str(<<"J", "a", "n", "e", " ", "R", "o", "e">>)

\* the value a key holds when it holds one: different under different keys
Sample(path) ==
    CASE path = <<"id">> -> Num("7")
      [] path = <<"competitor", "id">> -> Num("7")
      [] path = <<"rank">> -> Num("3")
      [] path = <<"points">> -> Num("1200")
      [] path = <<"name">> -> NameLong
      [] path = <<"full_name">> -> NameJane
      [] path = <<"country", "name">> -> Str(<<"U", "S", "A">>)
      [] path = <<"country", "code">> -> Str(<<"U", "S">>)
      [] Head(path) \in NumericKeys -> Num("5")
      [] OTHER -> Str(path)

\* the empty value of a key: 0 for a count, '' otherwise
Empty(k) == IF k \in NumericKeys THEN Zero ELSE EmptyStr

EmptyObj == [p \in {} |-> None]

\* the mappings that can sit under nested key k
RECURSIVE SubObjs(_, _)
SubObjs(k, fields) ==
    IF fields = {} THEN {EmptyObj}
    ELSE LET f == CHOOSE x \in fields : TRUE
             rest == SubObjs(k, fields \ {f})
         IN  rest \cup {o @@ K2(k, f, v) : o \in rest, v \in {None, Sample(<<k, f>>)}}

\* what a present key k contributes to the object
Present(kind, k) ==
    IF k \in NestedKeys(kind)
    THEN {K(k, None)} \cup {K(k, Mapping) @@ o : o \in SubObjs(k, SubKeys(k))}
    ELSE {K(k, v) : v \in {None, Empty(k), Sample(<<k>>)}}

\* the objects in which at most n of the given keys are present
RECURSIVE Objs(_, _, _)
Objs(kind, keys, n) ==
    IF keys = {} \/ n = 0 THEN {EmptyObj}
    ELSE LET k == CHOOSE x \in keys : TRUE
             without == Objs(kind, keys \ {k}, n)
             room == {o \in without : Cardinality({p \in DOMAIN o : Len(p) = 1}) < n}
         IN  without \cup {o @@ q : o \in room, q \in Present(kind, k)}

Inputs(kind) == Objs(kind, ScalarKeys(kind) \cup NestedKeys(kind), MaxPresent)

NoRow == [pending |-> "call"]

InitNorm ==
    /\ apiKey = RealKey /\ dbString = RealDb
    /\ pc = "normalize_only" /\ grp = 0 /\ exitStatus = -1 /\ engine = FALSE
    /\ started = <<>> /\ data = NoDoc /\ batches = Failed
    /\ groupError = [g \in Groups |-> "none"]
    /\ GetIdle
    /\ UpsertIdle /\ held = 0 /\ ups = [t \in Tables |-> "idle"]
    /\ db = EmptyDb
    /\ calls = 0 /\ prev = NoPrev
    /\ nkind \in Kinds /\ nitem \in Inputs(nkind) /\ nrow = NoRow

\* row = normalize_<kind>(json_item)
NormalizeItem ==
    /\ pc = "normalize_only" /\ nrow = NoRow
    /\ nrow' = Normalizer(nkind, nitem)
    /\ UNCHANGED <<nkind, nitem, calls, prev>>
    /\ UNCHANGED <<cfgVars, mainVars, getVars, upsertVars>>

SpecNorm == InitNorm /\ [][NormalizeItem]_vars

----------------------------------------------------------------------------
(* Fairness: the script is one thread that keeps running its next statement *)

SpecFetchFair == SpecFetch /\ WF_vars(GetStep)

----------------------------------------------------------------------------
(* Properties *)

GetActive == gpc # "idle"
GetOver == gpc \in {"returned", "raised"}
FatalStatusStrings == {ToString(st) : st \in {x \in Statuses : x # 200 /\ ~IsBackoffStatus(x)}}
RetriesExhausted == [type |-> "RuntimeError", url |-> gurl]

\* C1: once a response carries a status other than 200, 429 or 503, the fetch
\* is over: it raised the HTTP error, slept for no backoff after that response
\* and issues no further request.
C1_FatalStatusSurfaced ==
    (GetActive /\ lastStatus \in FatalStatusStrings)
        => (gpc = "raised" /\ gerror.type = "HTTPError" /\ lastSleep = 0)

\* C2: a fetch all of whose responses are HTTP 429 never returns a document,
\* and once it is over it has issued exactly max_retries requests and raised
\* the retries-exhausted error naming its url.
C2_All429Exhausts ==
    (GetActive /\ seen \subseteq {"429"})
        => /\ gpc # "returned"
           /\ gresult = NoDoc
           /\ requests <= max_retries
           /\ GetOver => (requests = max_retries /\ gerror = RetriesExhausted)

C2_Witness ==
    /\ gpc = "raised" /\ seen = {"429"}
    /\ max_retries = MaxRetriesBound /\ requests = max_retries
    /\ gerror = RetriesExhausted

\* C3 (state part): a fetch never issues more than max_retries requests; while
\* it runs no 200 has been answered; when it returns, it returns the body of
\* the response just received, which is its only 200; when it fails, it fails
\* with retries-exhausted or an HTTP error and returns nothing.
C3_Outcome ==
    GetActive =>
        /\ requests <= max_retries
        /\ gpc \in {"loop", "returned", "raised"}
        /\ gpc = "loop" => ("200" \notin seen /\ gresult = NoDoc /\ gerror = NoError)
        /\ gpc = "returned" =>
              /\ lastStatus = "200" /\ gresult = lastBody /\ gresult \in DocsAt(gurl)
              /\ gerror = NoError
              /\ requests = attempt + 1
        /\ gpc = "raised" =>
              /\ gerror.type \in {"RuntimeError", "HTTPError"}
              /\ gresult = NoDoc /\ "200" \notin seen

UpsertActive == upc # "idle"

\* C4: while an upsert's transaction is open, and after a row statement or
\* the commit raised a storage error, the target table holds exactly the rows
\* it held when the call started.
C4_RollbackRestores ==
    (UpsertActive /\ (upc \in {"executing", "rollback"} \/ ups[utable] = "rolledback"))
        => db[utable] = tableBefore

\* a commit that failed after every row of a two-row batch had been executed
C4_Witness ==
    /\ upc = "returned" /\ ups[utable] = "rolledback"
    /\ Len(urows) > 1 /\ ui > Len(urows)
    /\ tableBefore # {} /\ db[utable] = tableBefore

\* C5: an upsert never ends by raising to its caller.
C5_NeverPropagates == upc # "raised"

\* C6: when a batch is upserted right after a committed upsert of the same
\* batch into the same table, and commits too, the table is as the first
\* upsert left it.
C6_Idempotent ==
    (upc = "returned" /\ ups[utable] = "committed"
        /\ prev.table = utable /\ prev.rows = urows)
        => db[utable] = prev.after

IsPrefix(a, b) == Len(a) <= Len(b) /\ a = SubSeq(b, 1, Len(a))

C7_Order ==
    /\ IsPrefix(started, <<1, 2, 3>>)
    /\ pc = "completed" => started = <<1, 2, 3>>
    /\ pc \in {"fetching", "normalize", "upsert_parent", "in_parent", "upsert_child",
               "in_child"} => (grp = Len(started) /\ started[grp] = grp)
    /\ pc = "group" => grp = Len(started) + 1

C7_Kept == \A t \in Tables : ups[t] = "committed" => db'[t] = db[t]

\* C7: the three groups are started once each, in the order 1, 2, 3, and a
\* run that got past validation ends with all three started, whatever was
\* caught in an earlier group; a batch committed in this run is not changed
\* by any later step of the run.
C7_GroupsIsolated == []C7_Order /\ [][C7_Kept]_vars

\* the Venues upsert failed, Categories and Competitions had committed, group 1
\* had ended in its except clause or not, and group 3 still ran
C7_Witness ==
    /\ pc = "completed" /\ started = <<1, 2, 3>>
    /\ ups["Categories"] = "committed" /\ ups["Competitions"] = "committed"
    /\ ups["Venues"] = "rolledback"
    /\ groupError[2] = "none" /\ ups["Competitors"] = "committed"

Placeholder == apiKey = PlaceholderKey \/ dbString = PlaceholderDb

\* C8: with a placeholder credential or connection string the run is either
\* still validating or has exited with status 1, and no request was issued,
\* no engine created, no connection or transaction opened, no group started.
C8_PlaceholderExits ==
    Placeholder =>
        /\ pc \in {"validate", "exited"}
        /\ pc = "exited" => exitStatus = 1
        /\ engine = FALSE /\ started = <<>>
        /\ gpc = "idle" /\ requests = 0
        /\ upc = "idle" /\ held = 0
        /\ \A t \in Tables : ups[t] = "idle"

C8_Witness ==
    /\ pc = "exited" /\ exitStatus = 1
    /\ apiKey = RealKey /\ dbString = PlaceholderDb

UpsertFinished(t) == ups[t] \in {"empty", "committed", "rolledback"}
FetchDone(g) ==
    /\ \E i \in 1..Len(started) : started[i] = g
    /\ ~(grp = g /\ pc \in {"group", "fetching"})
    /\ groupError[g] \notin {"RuntimeError", "HTTPError"}

\* C9: the child table's upsert has not started unless the parent table's
\* upsert of the same group has returned (empty, committed or rolled back),
\* and no upsert of a group has started unless the group's fetch returned.
C9_ParentFirst ==
    \A g \in Groups :
        /\ ups[ChildTable(g)] # "idle" => UpsertFinished(ParentTable(g))
        /\ (ups[ParentTable(g)] # "idle" \/ ups[ChildTable(g)] # "idle") => FetchDone(g)

C9_Witness ==
    /\ ups["Venues"] = "running" /\ upc = "executing"
    /\ ups["Complexes"] = "rolledback"

\* C10: at most one connection is ever checked out, and none is once an
\* upsert has returned or raised.
C10_ConnectionsReleased ==
    /\ held <= 1
    /\ upc \in {"idle", "returned", "raised"} => held = 0


\* C11: an upsert that returns after an empty batch or a commit returns the
\* number of rows written (0, the batch length); for an empty batch no
\* connection was opened and the table is as it was.
C11_ReturnsCount ==
    (upc = "returned" /\ ups[utable] \in {"empty", "committed"})
        => /\ uret = Num(ToString(Len(urows)))
           /\ ups[utable] = "empty" => (held = 0 /\ db[utable] = tableBefore)

\* the primary-key values the rows of a batch carry
KeysIn(rows, pk) == {rows[i][pk] : i \in {j \in 1..Len(rows) : HasKey(rows[j], pk)}}
LastWith(rows, pk, k) ==
    LET at == {i \in 1..Len(rows) : HasKey(rows[i], pk) /\ rows[i][pk] = k}
    IN  rows[CHOOSE i \in at : \A j \in at : j <= i]

\* C17: after a committed upsert, for every key value carried by a row of the
\* batch the table holds exactly one row with that key, the last row of the
\* batch with that key; the rows stored before under other keys are still
\* there as they were.
C17_ReplacedByKey ==
    (upc \in {"close", "returned"} /\ ups[utable] = "committed")
        => /\ \A k \in KeysIn(urows, PkOf(utable)) :
                 {r \in db[utable] : r[PkOf(utable)] = k}
                     = {LastWith(urows, PkOf(utable), k)}
           /\ \A r \in tableBefore :
                 r[PkOf(utable)] \notin KeysIn(urows, PkOf(utable)) => r \in db[utable]

\* the competition "a" occurs twice in the batch with different names and was
\* already stored
C17_Witness ==
    /\ upc = "returned" /\ ups[utable] = "committed" /\ utable = "Competitions"
    /\ Len(urows) = 2 /\ urows[1] # urows[2]
    /\ urows[1]["competition_id"] = urows[2]["competition_id"]
    /\ \E r \in tableBefore : r["competition_id"] = urows[2]["competition_id"]
    /\ db[utable] = {urows[2]}

\* C19: every row of a batch handed to upsert_table has a column named by the
\* pk argument of the same call.
C19_RowsCarryPk ==
    upc # "idle" => \A i \in 1..Len(urows) : upk \in DOMAIN urows[i]


\* C18: with k the number of requests issued so far, the sleep that follows a
\* 429 or 503 answer to request k is 5 * k seconds and the sleep that follows
\* a network-level exception of request k is 2 * k seconds, the last attempt
\* included; a fetch that only ever got 429 has slept
\* 5 + 10 + ... + 5 * max_retries seconds when it fails.
C18_LinearBackoff ==
    GetActive =>
        /\ lastStatus \in {"429", "503"} => lastSleep = 5 * requests
        /\ lastStatus = "exception" => lastSleep = 2 * requests
        /\ (gpc = "raised" /\ seen \subseteq {"429"})
              => slept = (5 * max_retries * (max_retries + 1)) \div 2

C18_Witness ==
    /\ gpc = "raised" /\ seen = {"429"}
    /\ max_retries = 3 /\ requests = 3
    /\ lastSleep = 15 /\ slept = 30


\* the group ended in its except clause before its first upsert_table call
FailedBeforeUpsert(g) == groupError[g] \in {"RuntimeError", "HTTPError", "normalize"}
GroupLeft(g) == grp > g \/ pc = "completed"

\* C16: a group whose fetch raised or one of whose items failed to normalize
\* has had no upsert_table call for either of its tables; a table's stored
\* rows change only in a step of an upsert of that table, so the tables of
\* such a group are as they were at the start of the run; and the step in
\* which the group fails changes no table and no upsert outcome of any group.
C16_FailedGroupWritesNothing ==
    /\ [](\A g \in Groups : FailedBeforeUpsert(g)
             => (ups[ParentTable(g)] = "idle" /\ ups[ChildTable(g)] = "idle"))
    /\ [][\A t \in Tables : db'[t] # db[t] => (utable = t /\ ups'[t] # "idle")]_vars
    /\ [][(\E g \in Groups : groupError'[g] # groupError[g] /\ FailedBeforeUpsert(g)')
             => (db' = db /\ ups' = ups)]_vars

\* one group failed in normalization, the next in its fetch, the third
\* committed both tables
C16_Witness ==
    /\ pc = "completed"
    /\ groupError[1] = "normalize" /\ groupError[2] = "RuntimeError"
    /\ ups["Categories"] = "idle" /\ ups["Venues"] = "idle"
    /\ db["Categories"] = OldRows("Categories")
    /\ ups["Competitors"] = "committed" /\ ups["Competitor_Rankings"] = "committed"

\* C20: once main() has left a group whose parent upsert was rolled back, the
\* child upsert of that group has been called in the same run.
C20_ChildAfterRolledBackParent ==
    \A g \in Groups :
        (ups[ParentTable(g)] = "rolledback" /\ GroupLeft(g))
            => ups[ChildTable(g)] # "idle"

\* the run ended with the competitions of a fetch stored and its categories
\* rolled back
C20_Witness ==
    /\ pc = "completed"
    /\ ups["Categories"] = "rolledback" /\ ups["Competitions"] = "committed"
    /\ db["Categories"] = {} /\ db["Competitions"] # {}


NormDone == pc = "normalize_only" /\ nrow # NoRow
Has(path) == path \in DOMAIN nitem

\* C12: a normalizer call returns a flat row, whatever keys of its argument
\* are absent, null or set and whatever nested object is absent, null or a
\* mapping: it never raises.
C12_NeverRaises == NormDone => nrow # RaisedRow

\* C13: a competitor without abbreviation and abbr gets as abbreviation the
\* first 10 characters of its resolved name (name, else full_name); the
\* competitor {id: 7, full_name: "Jane Roe", country: {name: "USA", code:
\* "US"}} gets the row with name "Jane Roe" and abbreviation "Jane Roe".
C13_AbbrevFromResolvedName ==
    (NormDone /\ nkind = "competitor" /\ nrow # RaisedRow
        /\ ~Has(<<"abbreviation">>) /\ ~Has(<<"abbr">>))
        => /\ nrow.abbreviation = Prefix(nrow.name, 10)
           /\ nitem = K("id", Num("7")) @@ K("full_name", NameJane) @@ K("country", Mapping)
                        @@ K2("country", "name", Str(<<"U", "S", "A">>))
                        @@ K2("country", "code", Str(<<"U", "S">>))
                 => nrow = [competitor_id |-> Num("7"), name |-> NameJane,
                            country |-> Str(<<"U", "S", "A">>),
                            country_code |-> Str(<<"U", "S">>),
                            abbreviation |-> NameJane]

\* the output columns that have a primary and an alternate source key
Coalesced(kind) ==
    CASE kind = "competition" ->
            {[col |-> "competition_id", first |-> <<"id">>, second |-> <<"competition_id">>],
             [col |-> "competition_name", first |-> <<"name">>, second |-> <<"competition_name">>],
             [col |-> "type", first |-> <<"type">>, second |-> <<"competition_type">>],
             [col |-> "gender", first |-> <<"gender">>, second |-> <<"gender_type">>],
             [col |-> "category_id", first |-> <<"category_id">>, second |-> <<"category", "id">>]}
      [] kind = "category" ->
            {[col |-> "category_name", first |-> <<"name">>, second |-> <<"category_name">>]}
      [] kind = "complex" ->
            {[col |-> "complex_name", first |-> <<"name">>, second |-> <<"complex_name">>]}
      [] kind = "venue" ->
            {[col |-> "venue_name", first |-> <<"name">>, second |-> <<"venue_name">>],
             [col |-> "city_name", first |-> <<"city", "name">>, second |-> <<"city_name">>],
             [col |-> "country_name", first |-> <<"country", "name">>, second |-> <<"country_name">>],
             [col |-> "country_code", first |-> <<"country", "code">>, second |-> <<"country_code">>],
             [col |-> "timezone", first |-> <<"timezone">>, second |-> <<"tz">>],
             [col |-> "complex_id", first |-> <<"complex_id">>, second |-> <<"complex", "id">>]}
      [] kind = "competitor" ->
            {[col |-> "name", first |-> <<"name">>, second |-> <<"full_name">>],
             [col |-> "country", first |-> <<"country", "name">>, second |-> <<"country_name">>],
             [col |-> "country_code", first |-> <<"country", "code">>, second |-> <<"country_code">>],
             [col |-> "abbreviation", first |-> <<"abbreviation">>, second |-> <<"abbr">>]}
      [] kind = "ranking" ->
            {[col |-> "competitions_played", first |-> <<"competitions_played">>,
              second |-> <<"competitions">>],
             [col |-> "competitor_id", first |-> <<"competitor", "id">>,
              second |-> <<"competitor_id">>]}

BothPresent(c) == Has(c.first) /\ Has(c.second)

Required(kind) ==
    IF kind = "ranking"
    THEN {<<"rank">>, <<"competitor">>, <<"competitor", "id">>}
    ELSE {<<"id">>}

Unk == Str(<<"U", "N", "K">>)

\* the columns filled from the required keys
IdentityCols(kind) ==
    CASE kind = "competition" -> {"competition_id"}
      [] kind = "category" -> {"category_id"}
      [] kind = "complex" -> {"complex_id"}
      [] kind = "venue" -> {"venue_id"}
      [] kind = "competitor" -> {"competitor_id"}
      [] kind = "ranking" -> {"rank_pos", "competitor_id"}

\* the specified default of every other column
Defaults(kind) ==
    CASE kind = "competition" ->
            [competition_name |-> EmptyStr, parent_id |-> None, type |-> EmptyStr,
             gender |-> EmptyStr, category_id |-> None]
      [] kind = "category" -> [category_name |-> EmptyStr]
      [] kind = "complex" -> [complex_name |-> EmptyStr]
      [] kind = "venue" ->
            [venue_name |-> EmptyStr, city_name |-> EmptyStr, country_name |-> EmptyStr,
             country_code |-> Unk, timezone |-> EmptyStr, complex_id |-> None]
      [] kind = "competitor" ->
            [name |-> EmptyStr, country |-> EmptyStr, country_code |-> Unk,
             abbreviation |-> EmptyStr]
      [] kind = "ranking" ->
            [movement |-> Zero, points |-> Zero, competitions_played |-> Zero,
             ranking_date |-> None]

RankingExample ==
    K("rank", Num("3")) @@ K("points", Num("1200")) @@ K("competitor", Mapping)
        @@ K2("competitor", "id", Num("7"))

\* C15: a call whose argument has none of the optional keys returns a row
\* that holds the default in every column not filled from a required key ('' for names, type, gender, timezone and abbreviation, "UNK"
\* for the country code, 0 for movement, points and competitions_played, null
\* for parent id, foreign keys and ranking_date) and does not raise; the
\* ranking {rank: 3, points: 1200, competitor: {id: 7}} gives rank_pos 3,
\* movement 0, points 1200, competitions_played 0, competitor_id 7 and
\* ranking_date null.
C15_DefaultsWhenOptionalAbsent ==
    NormDone =>
        /\ DOMAIN nitem \subseteq Required(nkind)
              => /\ nrow # RaisedRow
                 /\ DOMAIN nrow = IdentityCols(nkind) \cup DOMAIN Defaults(nkind)
                 /\ \A c \in DOMAIN Defaults(nkind) : nrow[c] = Defaults(nkind)[c]
        /\ (nkind = "ranking" /\ nitem = RankingExample)
              => nrow = [rank_pos |-> Num("3"), movement |-> Zero, points |-> Num("1200"),
                         competitions_played |-> Zero, competitor_id |-> Num("7"),
                         ranking_date |-> None]

C15_Witness ==
    /\ NormDone /\ nkind = "ranking" /\ nitem = RankingExample
    /\ nrow.movement = Zero /\ nrow.ranking_date = None /\ nrow.points = Num("1200")

====
